---- MODULE Spec2Model ----
(***************************************************************************)
(* Model of scripts/monitor.py (sanctions list monitor): the table         *)
(* extractor parse_xlsx, the diff engine compute_diff, the rolling         *)
(* changelog update_changelog and the orchestration in main.               *)
(*                                                                         *)
(* Text is a sequence of characters; a character is a one-character        *)
(* string ("a", "|", " "), or the name of a code point outside ASCII       *)
(* ("u0192").  A dict is a function from keys (texts) to values; where the *)
(* code depends on dict insertion order the ordered list of key/value      *)
(* pairs is kept.                                                          *)
(***************************************************************************)
EXTENDS Integers, Sequences, FiniteSets, TLC

VARIABLES
    rows,           \* parse_xlsx: the raw rows of the worksheet
    entries,        \* parse_xlsx: the returned record list
    pphase,         \* parse_xlsx: "loaded" before the call, "parsed" after
    old_entries,    \* compute_diff: first argument
    new_entries,    \* compute_diff: second argument
    diff,           \* compute_diff: returned dict
    dphase,         \* compute_diff: "args" before the call, "done" after
    clock,          \* number of timestamps handed out so far (now)
    changelogFile,  \* data/changelog.json
    metaFile,       \* data/meta.json
    currentJson,    \* data/current.json
    currentXlsx,    \* data/current.xlsx
    outbox,         \* notifications handed to the SMTP server
    stdout          \* messages printed by the last run of main

vars == <<rows, entries, pphase, old_entries, new_entries, diff, dphase, clock,
          changelogFile, metaFile, currentJson, currentXlsx, outbox, stdout>>

parseVars == <<rows, entries, pphase>>
diffVars == <<old_entries, new_entries, diff, dphase>>
mainVars == <<clock, changelogFile, metaFile, currentJson, currentXlsx, outbox, stdout>>

----------------------------------------------------------------------------
(* Bounds of the model *)

MaxRows == 3
MaxLen == 2
MaxCalls == 502
MaxRuns == 3

----------------------------------------------------------------------------
(* Characters and text *)

Min(a, b) == IF a < b THEN a ELSE b

\* code point of a character (Python compares str by code point)
Ord(c) ==
    CASE c = "\n" -> 10 [] c = " " -> 32
      [] c = "1" -> 49 [] c = "2" -> 50 [] c = "3" -> 51
      [] c = "I" -> 73 [] c = "L" -> 76 [] c = "N" -> 78 [] c = "U" -> 85
      [] c = "[" -> 91 [] c = "]" -> 93 [] c = "_" -> 95
      [] c = "a" -> 97 [] c = "b" -> 98 [] c = "d" -> 100 [] c = "e" -> 101
      [] c = "f" -> 102 [] c = "g" -> 103 [] c = "i" -> 105 [] c = "k" -> 107
      [] c = "l" -> 108 [] c = "m" -> 109 [] c = "n" -> 110 [] c = "o" -> 111
      [] c = "p" -> 112 [] c = "q" -> 113 [] c = "r" -> 114 [] c = "s" -> 115
      [] c = "t" -> 116 [] c = "u" -> 117 [] c = "w" -> 119 [] c = "z" -> 122
      [] c = "|" -> 124 [] c = "u00f4" -> 244 [] c = "u0192" -> 402

\* str.lower() on one character
LowerChar(c) ==
    CASE c = "I" -> "i" [] c = "L" -> "l" [] c = "N" -> "n" [] c = "U" -> "u"
      [] OTHER -> c

\* \s of the regular expression, and the characters str.strip() removes
IsSpace(c) == c \in {" ", "\n"}

IsDigit(c) == c \in {"1", "2", "3"}

\* a < b for str
RECURSIVE StrLess(_, _)
StrLess(a, b) ==
    IF b = <<>> THEN FALSE
    ELSE IF a = <<>> THEN TRUE
    ELSE IF Head(a) = Head(b) THEN StrLess(Tail(a), Tail(b))
    ELSE Ord(Head(a)) < Ord(Head(b))

\* s.lstrip(chars)
RECURSIVE LStrip(_, _)
LStrip(s, chars) ==
    IF s # <<>> /\ Head(s) \in chars THEN LStrip(Tail(s), chars) ELSE s

\* s.rstrip(chars)
RECURSIVE RStrip(_, _)
RStrip(s, chars) ==
    IF s # <<>> /\ s[Len(s)] \in chars
    THEN RStrip(SubSeq(s, 1, Len(s) - 1), chars) ELSE s

\* s.strip(): whitespace removed at both ends
Strip(s) == RStrip(LStrip(s, {" ", "\n"}), {" ", "\n"})

\* s.strip("|")
StripPipe(s) == RStrip(LStrip(s, {"|"}), {"|"})

\* s.lower()
LowerStr(s) == [i \in DOMAIN s |-> LowerChar(s[i])]

\* re.sub(r"\s+", " ", s): every run of whitespace becomes one space
RECURSIVE CollapseSpace(_)
CollapseSpace(s) ==
    IF s = <<>> THEN <<>>
    ELSE IF IsSpace(Head(s))
         THEN <<" ">> \o CollapseSpace(LStrip(Tail(s), {" ", "\n"}))
         ELSE <<Head(s)>> \o CollapseSpace(Tail(s))

\* term in key (substring test)
Contains(key, term) ==
    \E i \in 0..(Len(key) - Len(term)) : SubSeq(key, i + 1, i + Len(term)) = term

\* "|".join(parts)
RECURSIVE JoinPipe(_)
JoinPipe(parts) ==
    IF parts = <<>> THEN <<>>
    ELSE IF Len(parts) = 1 THEN parts[1]
    ELSE parts[1] \o <<"|">> \o JoinPipe(Tail(parts))

\* sorted(S) for a set of str
RECURSIVE SortedStr(_)
SortedStr(S) ==
    IF S = {} THEN <<>>
    ELSE LET m == CHOOSE x \in S : \A y \in S \ {x} : StrLess(x, y)
         IN <<m>> \o SortedStr(S \ {m})

----------------------------------------------------------------------------
(* Cells of the worksheet: None, a str, or an int *)

None == [t |-> "none"]
T(s) == [t |-> "str", s |-> s]
I(n) == [t |-> "int", n |-> n]

\* str(c) for a cell that is not None
Str(c) ==
    IF c.t = "int"
    THEN <<CASE c.n = 1 -> "1" [] c.n = 2 -> "2" [] c.n = 3 -> "3">>
    ELSE c.s

\* "c is not None and str(c).strip()": the cell counts as non-empty
IsNonEmptyCell(c) == c.t # "none" /\ Strip(Str(c)) # <<>>

\* sum(1 for c in row if c is not None and str(c).strip())
NonEmptyCount(row) == Cardinality({j \in 1..Len(row) : IsNonEmptyCell(row[j])})

\* a header row has at least this many non-empty cells
HeaderMinCells == 3

\* the fallback key takes at most this many values
FallbackParts == 3

\* mutant of HeaderIdx: the last row with enough non-empty cells is taken
HeaderIdxLast(rs) ==
    LET found == {i \in 1..Len(rs) : NonEmptyCount(rs[i]) >= HeaderMinCells}
    IN IF found = {} THEN 0
       ELSE (CHOOSE i \in found : \A k \in found : i >= k) - 1

\* header_idx (0-based): the first row with enough non-empty cells, else 0
HeaderIdx(rs) ==
    LET found == {i \in 1..Len(rs) : NonEmptyCount(rs[i]) >= HeaderMinCells}
    IN IF found = {} THEN 0
       ELSE (CHOOSE i \in found : \A k \in found : i <= k) - 1

\* the cleaned header labels: "" for None, else stripped, lower-cased and
\* with whitespace runs collapsed
CleanHeaders(raw) ==
    [j \in 1..Len(raw) |->
        IF raw[j].t = "none" THEN <<>>
        ELSE CollapseSpace(LowerStr(Strip(Str(raw[j]))))]

\* all(c is None or str(c).strip() == "" for c in row)
IsEmptyRow(row) ==
    \A j \in 1..Len(row) : row[j].t = "none" \/ Strip(Str(row[j])) = <<>>

\* d[k] = v on an insertion-ordered dict kept as a list of <<key, value>>
DictSet(pairs, k, v) ==
    IF \E i \in 1..Len(pairs) : pairs[i][1] = k
    THEN [i \in 1..Len(pairs) |-> IF pairs[i][1] = k THEN <<k, v>> ELSE pairs[i]]
    ELSE Append(pairs, <<k, v>>)

\* d[k]
DictGet(pairs, k) == pairs[CHOOSE i \in 1..Len(pairs) : pairs[i][1] = k][2]

\* d.keys() as a set
DictKeys(pairs) == {pairs[i][1] : i \in 1..Len(pairs)}

\* the loop "for j, val in enumerate(row)" from column j on
RECURSIVE EntryFrom(_, _, _, _)
EntryFrom(row, headers, j, entry) ==
    IF j > Len(row) THEN entry
    ELSE IF j <= Len(headers) /\ headers[j] # <<>>
         THEN EntryFrom(row, headers, j + 1,
                  DictSet(entry, headers[j],
                      IF row[j].t # "none" THEN Strip(Str(row[j])) ELSE <<>>))
         ELSE EntryFrom(row, headers, j + 1, entry)

\* entry: the fields of one data row
EntryOf(row, headers) == EntryFrom(row, headers, 1, <<>>)

NumberTerms == {<<"l", "p">>, <<"n", "r">>, <<"n", "u", "m", "e", "r">>}

NameTerms ==
    {<<"n", "a", "z", "w", "a">>, <<"i", "m", "i", "u0192", "u00f4">>,
     <<"i", "m", "i", "e">>, <<"n", "a", "z", "w", "i", "s", "k", "o">>,
     <<"n", "a", "m", "e">>}

\* any(term in key for term in ["lp", "nr", "numer"])
IsNumberLabel(key) == \E term \in NumberTerms : Contains(key, term)

\* any(term in key for term in ["nazwa", ..., "name"])
IsNameLabel(key) == \E term \in NameTerms : Contains(key, term)

\* mutant of PartsStep: the value of a number label is appended
PartsStepAppend(id_parts, key, entry) ==
    IF IsNumberLabel(key) \/ IsNameLabel(key)
    THEN Append(id_parts, DictGet(entry, key))
    ELSE id_parts

\* one step of "for key in sorted(entry.keys())"
PartsStep(id_parts, key, entry) ==
    IF IsNumberLabel(key) THEN <<DictGet(entry, key)>> \o id_parts
    ELSE IF IsNameLabel(key) THEN Append(id_parts, DictGet(entry, key))
    ELSE id_parts

\* the loop over the sorted keys
RECURSIVE PartsLoop(_, _, _)
PartsLoop(keys, entry, id_parts) ==
    IF keys = <<>> THEN id_parts
    ELSE PartsLoop(Tail(keys), entry, PartsStep(id_parts, Head(keys), entry))

\* [v for v in entry.values() if v][:3]
FallbackIdParts(entry) ==
    LET vals == [i \in 1..Len(entry) |-> entry[i][2]]
        nonEmpty == SelectSeq(vals, LAMBDA v : v # <<>>)
    IN SubSeq(nonEmpty, 1, Min(FallbackParts, Len(nonEmpty)))

\* id_parts of one entry
IdParts(entry) ==
    LET id_parts == PartsLoop(SortedStr(DictKeys(entry)), entry, <<>>)
    IN IF id_parts = <<>> THEN FallbackIdParts(entry) ELSE id_parts

\* "|".join(id_parts).strip("|")
EntryId(entry) == StripPipe(JoinPipe(IdParts(entry)))

IdKey == <<"_", "i", "d">>

\* the entry as a dict, with entry["_id"] set
WithId(entry, id) ==
    [k \in DictKeys(entry) \cup {IdKey} |->
        IF k = IdKey THEN id ELSE DictGet(entry, k)]

\* the loop "for row in rows[header_idx + 1:]"
RECURSIVE ParseRows(_, _)
ParseRows(data, headers) ==
    IF data = <<>> THEN <<>>
    ELSE LET row == Head(data)
             rest == ParseRows(Tail(data), headers)
         IN IF IsEmptyRow(row) THEN rest
            ELSE LET entry == EntryOf(row, headers)
                     id == EntryId(entry)
                 IN IF id # <<>> THEN <<WithId(entry, id)>> \o rest ELSE rest

\* parse_xlsx on the rows of the active worksheet
parse_xlsx(rs) ==
    IF rs = <<>> THEN <<>>
    ELSE LET header_idx == HeaderIdx(rs)
         IN ParseRows(SubSeq(rs, header_idx + 2, Len(rs)),
                      CleanHeaders(rs[header_idx + 1]))

----------------------------------------------------------------------------
(* compute_diff *)

\* e.get("_id") is truthy
HasId(e) == IdKey \in DOMAIN e /\ e[IdKey] # <<>>

\* mutant of IdMap: the first entry of a key wins
IdMapFirst(es) ==
    LET kept == {i \in 1..Len(es) : HasId(es[i])}
    IN [id \in {es[i][IdKey] : i \in kept} |->
           es[CHOOSE i \in kept :
                  /\ es[i][IdKey] = id
                  /\ \A k \in kept : es[k][IdKey] = id => k >= i]]

\* {e["_id"]: e for e in es if e.get("_id")}: the last entry of a key wins
IdMap(es) ==
    LET kept == {i \in 1..Len(es) : HasId(es[i])}
    IN [id \in {es[i][IdKey] : i \in kept} |->
           es[CHOOSE i \in kept :
                  /\ es[i][IdKey] = id
                  /\ \A k \in kept : es[k][IdKey] = id => k <= i]]

\* {k: v for k, v in e.items() if k != "_id"}
WithoutId(e) == [k \in DOMAIN e \ {IdKey} |-> e[k]]

\* the entry without "_id", then entry["_id"] = _id
Projected(e, id) ==
    LET entry == WithoutId(e)
    IN [k \in DOMAIN entry \cup {IdKey} |-> IF k = IdKey THEN id ELSE entry[k]]

\* the "added" loop: the keys of the second map missing in the first, sorted
AddedOf(old_map, new_map) ==
    LET ids == SortedStr(DOMAIN new_map \ DOMAIN old_map)
    IN [i \in 1..Len(ids) |-> Projected(new_map[ids[i]], ids[i])]

\* mutant of RemovedOf: the removed keys are listed in descending order
RemovedOfDescending(old_map, new_map) ==
    LET ids == SortedStr(DOMAIN old_map \ DOMAIN new_map)
    IN [i \in 1..Len(ids) |->
           Projected(old_map[ids[Len(ids) + 1 - i]], ids[Len(ids) + 1 - i])]

\* the "removed" loop: the keys of the first map missing in the second, sorted
RemovedOf(old_map, new_map) ==
    LET ids == SortedStr(DOMAIN old_map \ DOMAIN new_map)
    IN [i \in 1..Len(ids) |-> Projected(old_map[ids[i]], ids[i])]

\* d.get(key, "")
GetOrEmpty(d, key) == IF key \in DOMAIN d THEN d[key] ELSE <<>>

\* mutant of AllKeys: only the fields of the old record are compared
AllKeysOld(old_e, new_e) == DOMAIN old_e

\* the all_keys of the "modified" loop
AllKeys(old_e, new_e) == DOMAIN old_e \cup DOMAIN new_e

\* changes: the fields of all_keys whose old and new values differ
ChangesOf(old_e, new_e) ==
    [key \in {k \in AllKeys(old_e, new_e) :
                 GetOrEmpty(old_e, k) # GetOrEmpty(new_e, k)} |->
        [old |-> GetOrEmpty(old_e, key), new |-> GetOrEmpty(new_e, key)]]

\* the "modified" loop over the sorted common keys
ModifiedOf(old_map, new_map) ==
    LET ids == SortedStr(DOMAIN old_map \cap DOMAIN new_map)
        differing == SelectSeq(ids,
            LAMBDA id : WithoutId(old_map[id]) # WithoutId(new_map[id]))
    IN [i \in 1..Len(differing) |->
           [_id |-> differing[i],
            changes |-> ChangesOf(WithoutId(old_map[differing[i]]),
                                  WithoutId(new_map[differing[i]]))]]

compute_diff(old, new) ==
    LET old_map == IdMap(old)
        new_map == IdMap(new)
    IN [added |-> AddedOf(old_map, new_map),
        removed |-> RemovedOf(old_map, new_map),
        modified |-> ModifiedOf(old_map, new_map)]

----------------------------------------------------------------------------
(* Sample rows: worksheets are sequences of these *)

hdrA == <<T(<<"L", "p">>), T(<<"N", "a", "z", "w", "a">>),
          T(<<"U", "w", "a", "g", "i">>)>>

hdrInfo == <<T(<<"L", "p">>), T(<<"N", "a", "z", "w", "a">>),
             T(<<"I", "n", "f", "o">>)>>

hdrWide == <<T(<<"n", "r">>), T(<<"n", "a", "z", "w", "a">>),
             T(<<"l", "p">>), T(<<"i", "m", "i", "e">>)>>

hdrBoth == <<T(<<"n", "a", "m", "e", " ", "\n", "n", "r">>), T(<<"l", "p">>),
             T(<<"i", "n", "f", "o">>)>>

rowFull == <<I(1), T(<<" ", "a", " ">>), T(<<"b">>)>>
rowFull2 == <<I(2), T(<<"b">>), T(<<"b">>)>>
rowFullB == <<I(1), T(<<"a">>), T(<<"a", "b">>)>>
rowNoNum == <<None, T(<<"a">>), T(<<"b">>)>>
rowNoName == <<T(<<"a">>), None, T(<<"b">>)>>
rowFoot == <<T(<<"[", "3", "]", " ", "f">>), None, None>>
rowBlank == <<None, T(<<" ">>), T(<<>>)>>
rowNote == <<None, None, T(<<"b">>)>>
rowWide == <<T(<<"a">>), T(<<"b">>), I(2), T(<<"1">>)>>
rowDup == <<T(<<"b">>), I(2), T(<<"b">>)>>
rowFullE == <<I(1), T(<<"a">>), None>>
rowNumOnly == <<I(1), None, T(<<"b">>)>>

RowSamples ==
    {hdrA, hdrWide, hdrBoth, rowFull, rowNoNum, rowNoName, rowFoot, rowBlank,
     rowNote, rowWide, rowDup}

\* the worksheets of at most MaxRows rows
Docs == UNION {[1..n -> RowSamples] : n \in 0..MaxRows}

----------------------------------------------------------------------------
(* Specification of parse_xlsx: one worksheet is loaded and parsed *)

IdleParse == rows = <<>> /\ entries = <<>> /\ pphase = "idle"
IdleDiff ==
    /\ old_entries = <<>>
    /\ new_entries = <<>>
    /\ diff = [added |-> <<>>, removed |-> <<>>, modified |-> <<>>]
    /\ dphase = "idle"
IdleMain ==
    /\ clock = 0
    /\ changelogFile = [exists |-> FALSE, data |-> <<>>]
    /\ metaFile = [exists |-> FALSE, data |-> <<>>]
    /\ currentJson = [exists |-> FALSE, data |-> <<>>]
    /\ currentXlsx = [exists |-> FALSE, data |-> <<>>]
    /\ outbox = <<>>
    /\ stdout = <<>>

InitParse ==
    /\ rows \in Docs
    /\ entries = <<>>
    /\ pphase = "loaded"
    /\ IdleDiff
    /\ IdleMain

ParseXlsx ==
    /\ pphase = "loaded"
    /\ entries' = parse_xlsx(rows)
    /\ pphase' = "parsed"
    /\ UNCHANGED <<rows, diffVars, mainVars>>

NextParse == ParseXlsx

SpecParse == InitParse /\ [][NextParse]_vars

----------------------------------------------------------------------------
(* Properties of parse_xlsx *)

\* the rows after the header row, and the labels of the header row
DataRows == SubSeq(rows, HeaderIdx(rows) + 2, Len(rows))
DataHeaders == IF rows = <<>> THEN <<>> ELSE CleanHeaders(rows[HeaderIdx(rows) + 1])

\* the ids of the returned records, in order
EntryIds == [i \in 1..Len(entries) |-> entries[i][IdKey]]

\* a value that starts with a bracketed integer, such as "[3] see footnote"
IsFootnote(v) ==
    \E n \in 3..Len(v) :
        /\ v[1] = "["
        /\ v[n] = "]"
        /\ \A k \in 2..(n - 1) : IsDigit(v[k])

\* the first non-empty field value of an entry is a footnote
StartsWithFootnote(entry) ==
    \E i \in 1..Len(entry) :
        /\ IsFootnote(entry[i][2])
        /\ \A k \in 1..(i - 1) : entry[k][2] = <<>>

\* C3: a data row whose first non-empty field value starts with a bracketed
\* integer is excluded from the record list that parse_xlsx returns.
C3_FootnoteRowsExcluded ==
    pphase = "parsed" =>
        \A i \in 1..Len(DataRows) :
            LET entry == EntryOf(DataRows[i], DataHeaders)
            IN StartsWithFootnote(entry) =>
                 \A k \in 1..Len(entries) :
                     entries[k] # WithId(entry, EntryId(entry))

\* the data rows that parse_xlsx retains (not blank, non-empty key)
RetainedRows ==
    {i \in 1..Len(DataRows) :
        /\ ~IsEmptyRow(DataRows[i])
        /\ EntryId(EntryOf(DataRows[i], DataHeaders)) # <<>>}

\* C4: if the id_parts lists computed for the retained rows are pairwise
\* different, no two returned records share the same _id.
C4_DistinctPartsDistinctIds ==
    pphase = "parsed" =>
        ((\A i, k \in RetainedRows :
              i # k => IdParts(EntryOf(DataRows[i], DataHeaders))
                         # IdParts(EntryOf(DataRows[k], DataHeaders)))
         => \A i, k \in 1..Len(entries) :
              i # k => entries[i][IdKey] # entries[k][IdKey])

\* the values of the given labels of an entry, labels in the given order
ValuesOf(entry, labels) == [i \in 1..Len(labels) |-> DictGet(entry, labels[i])]

\* a sequence reversed
Reversed(seq) == [i \in 1..Len(seq) |-> seq[Len(seq) + 1 - i]]

\* the first three non-empty field values of an entry, in field order
FirstNonEmptyValues(entry) ==
    LET filled == {i \in 1..Len(entry) : entry[i][2] # <<>>}
        first == {i \in filled : Cardinality({k \in filled : k < i}) < 3}
        nth(n) == CHOOSE i \in first : Cardinality({k \in first : k < i}) = n - 1
    IN [n \in 1..Cardinality(first) |-> entry[nth(n)][2]]

\* the key parts as the claim words them: every label with a name term
\* contributes to the second group
StatedParts(entry) ==
    LET numbers == {k \in DictKeys(entry) : IsNumberLabel(k)}
        names == {k \in DictKeys(entry) : IsNameLabel(k)}
    IN IF numbers = {} /\ names = {} THEN FirstNonEmptyValues(entry)
       ELSE ValuesOf(entry, Reversed(SortedStr(numbers)))
              \o ValuesOf(entry, SortedStr(names))

\* the key parts with the second group limited to the labels that hold a
\* name term and none of "lp", "nr", "numer"
AmendedParts(entry) ==
    LET numbers == {k \in DictKeys(entry) : IsNumberLabel(k)}
        names == {k \in DictKeys(entry) : IsNameLabel(k) /\ ~IsNumberLabel(k)}
    IN IF numbers = {} /\ names = {} THEN FirstNonEmptyValues(entry)
       ELSE ValuesOf(entry, Reversed(SortedStr(numbers)))
              \o ValuesOf(entry, SortedStr(names))

\* the keys of the data rows as the claim words them, empty keys dropped
StatedKeys ==
    SelectSeq([i \in 1..Len(DataRows) |->
                  StripPipe(JoinPipe(StatedParts(EntryOf(DataRows[i], DataHeaders))))],
              LAMBDA key : key # <<>>)

AmendedKeys ==
    SelectSeq([i \in 1..Len(DataRows) |->
                  StripPipe(JoinPipe(AmendedParts(EntryOf(DataRows[i], DataHeaders))))],
              LAMBDA key : key # <<>>)

\* C5 as stated: the key of every data row is the values of the number
\* labels in descending label order, then the values of the labels holding a
\* name term in ascending label order (the first 3 non-empty values when no
\* label matches), joined with "|" and stripped of "|"; rows with an empty
\* key are not retained.
C5_KeysAsStated == pphase = "parsed" => EntryIds = StatedKeys

\* C5 amended: as C5_KeysAsStated, the second group being the labels that
\* hold a name term and no number term.
C5_KeysAmended == pphase = "parsed" => EntryIds = AmendedKeys

\* a record with two number labels and two name labels, all four with a
\* value, was retained
C5_Witness ==
    /\ pphase = "parsed"
    /\ \E i \in 1..Len(entries) :
          /\ Cardinality({k \in DOMAIN entries[i] : IsNumberLabel(k)}) = 2
          /\ Cardinality({k \in DOMAIN entries[i] :
                              IsNameLabel(k) /\ ~IsNumberLabel(k)}) = 2
          /\ \A k \in DOMAIN entries[i] : entries[i][k] # <<>>

\* the number of cells of a row that are not None and not blank
FilledCells(row) ==
    Cardinality({j \in 1..Len(row) :
                    row[j].t # "none" /\ Strip(Str(row[j])) # <<>>})

\* the 0-based header row the claim describes
StatedHeaderRow ==
    IF \E i \in 1..Len(rows) : FilledCells(rows[i]) >= 3
    THEN (CHOOSE i \in 1..Len(rows) :
              /\ FilledCells(rows[i]) >= 3
              /\ \A k \in 1..(i - 1) : FilledCells(rows[k]) < 3) - 1
    ELSE 0

\* C6: the header row is the first row with at least 3 non-empty cells, row
\* 0 when there is none; the records are those of the rows after it; a
\* worksheet without rows gives an empty record list.
C6_HeaderRow ==
    pphase = "parsed" =>
        IF rows = <<>> THEN entries = <<>>
        ELSE entries = ParseRows(SubSeq(rows, StatedHeaderRow + 2, Len(rows)),
                                 CleanHeaders(rows[StatedHeaderRow + 1]))

\* a title row precedes the header row and a record was extracted
C6_Witness ==
    /\ pphase = "parsed"
    /\ rows # <<>>
    /\ StatedHeaderRow > 0
    /\ entries # <<>>

----------------------------------------------------------------------------
(* Specification of compute_diff: two record lists are compared *)

\* records as parse_xlsx returns them
RecordSamples ==
    {parse_xlsx(<<hdrA, rowFull>>)[1], parse_xlsx(<<hdrA, rowFullB>>)[1],
     parse_xlsx(<<hdrA, rowFullE>>)[1], parse_xlsx(<<hdrInfo, rowFull>>)[1],
     parse_xlsx(<<hdrInfo, rowFullE>>)[1], parse_xlsx(<<hdrA, rowFull2>>)[1],
     parse_xlsx(<<hdrA, rowNumOnly>>)[1]}

\* the record lists of at most MaxLen records
RecordLists == UNION {[1..n -> RecordSamples] : n \in 0..MaxLen}

InitDiff ==
    /\ old_entries \in RecordLists
    /\ new_entries \in RecordLists
    /\ diff = [added |-> <<>>, removed |-> <<>>, modified |-> <<>>]
    /\ dphase = "args"
    /\ IdleParse
    /\ IdleMain

ComputeDiff ==
    /\ dphase = "args"
    /\ diff' = compute_diff(old_entries, new_entries)
    /\ dphase' = "done"
    /\ UNCHANGED <<old_entries, new_entries, parseVars, mainVars>>

NextDiff == ComputeDiff

SpecDiff == InitDiff /\ [][NextDiff]_vars

----------------------------------------------------------------------------
(* Properties of compute_diff *)

\* the identity keys that occur in a record list
KeysIn(es) == {es[i][IdKey] : i \in 1..Len(es)}

\* the last record of a list that carries the key
LastWith(es, id) ==
    es[CHOOSE i \in 1..Len(es) :
           /\ es[i][IdKey] = id
           /\ \A k \in (i + 1)..Len(es) : es[k][IdKey] # id]

\* out holds exactly one entry for each key of S, in ascending key order,
\* each entry being the last record of es with that key
ListsExactly(out, S, es) ==
    /\ Len(out) = Cardinality(S)
    /\ {out[i][IdKey] : i \in 1..Len(out)} = S
    /\ \A i \in 1..(Len(out) - 1) : StrLess(out[i][IdKey], out[i + 1][IdKey])
    /\ \A i \in 1..Len(out) : out[i] = LastWith(es, out[i][IdKey])

\* C1: "added" holds exactly one entry for each key in new and not in old,
\* "removed" one for each key in old and not in new, each list in ascending
\* key order, each entry carrying the fields of the last record with that
\* key together with its _id.
C1_AddedRemoved ==
    dphase = "done" =>
        /\ ListsExactly(diff.added, KeysIn(new_entries) \ KeysIn(old_entries),
                        new_entries)
        /\ ListsExactly(diff.removed, KeysIn(old_entries) \ KeysIn(new_entries),
                        old_entries)

\* two keys were added in sorted order, against the input order, and a key
\* carried by two different records was removed
C1_Witness ==
    /\ dphase = "done"
    /\ Len(diff.added) = 2
    /\ StrLess(new_entries[2][IdKey], new_entries[1][IdKey])
    /\ Len(diff.removed) = 1
    /\ Len(old_entries) = 2
    /\ old_entries[1] # old_entries[2]

\* the fields of a record other than _id
FieldsOf(e) == DOMAIN e \ {IdKey}

\* the value of a field of a record, a missing field counting as ""
ValueOr(e, f) == IF f \in DOMAIN e THEN e[f] ELSE <<>>

\* the field mappings (without _id) of two records are equal
SameFields(a, b) ==
    /\ FieldsOf(a) = FieldsOf(b)
    /\ \A f \in FieldsOf(a) : a[f] = b[f]

\* C2: for every key present in both lists whose field mappings differ,
\* the "modified" entry of that key lists exactly the fields (of the union
\* of the field names) whose old value differs from the new one, a missing
\* field counting as ""; keys with equal field mappings have no entry.
C2_ModifiedComplete ==
    dphase = "done" =>
        \A id \in KeysIn(old_entries) \cap KeysIn(new_entries) :
            LET o == LastWith(old_entries, id)
                n == LastWith(new_entries, id)
                hits == {i \in 1..Len(diff.modified) : diff.modified[i]._id = id}
            IN IF SameFields(o, n) THEN hits = {}
               ELSE /\ Cardinality(hits) = 1
                    /\ \A i \in hits :
                          DOMAIN diff.modified[i].changes =
                              {f \in FieldsOf(o) \cup FieldsOf(n) :
                                  ValueOr(o, f) # ValueOr(n, f)}

\* a modified entry lists a field that only the new record has, and leaves
\* out a field that only the old record has, with an empty value
C2_Witness ==
    /\ dphase = "done"
    /\ \E i \in 1..Len(diff.modified) :
          LET o == LastWith(old_entries, diff.modified[i]._id)
              n == LastWith(new_entries, diff.modified[i]._id)
          IN /\ \E f \in DOMAIN diff.modified[i].changes : f \notin DOMAIN o
             /\ \E f \in FieldsOf(o) :
                   f \notin DOMAIN n /\ f \notin DOMAIN diff.modified[i].changes

\* C8: compute_diff(A, B).added = compute_diff(B, A).removed and
\* compute_diff(A, B).removed = compute_diff(B, A).added, as sequences, also
\* when A or B holds a key twice.
C8_Antisymmetry ==
    dphase = "done" =>
        /\ diff.added = compute_diff(new_entries, old_entries).removed
        /\ diff.removed = compute_diff(new_entries, old_entries).added

\* both lists are non-empty and a key occurs twice in one argument
C8_Witness ==
    /\ dphase = "done"
    /\ diff.added # <<>>
    /\ diff.removed # <<>>
    /\ \E i, k \in 1..Len(new_entries) :
          /\ i < k
          /\ new_entries[i][IdKey] = new_entries[k][IdKey]
          /\ new_entries[i] # new_entries[k]

----------------------------------------------------------------------------
(* update_changelog *)

\* the changelog keeps this many entries
MaxEntries == 500

\* the file read back: [] when it does not exist
ReadList(file) == IF file.exists THEN file.data ELSE <<>>

\* the changelog entry of one diff
ChangelogEntry(d, timestamp) ==
    [timestamp |-> timestamp,
     added_count |-> Len(d.added),
     removed_count |-> Len(d.removed),
     modified_count |-> Len(d.modified),
     added |-> d.added,
     removed |-> d.removed,
     modified |-> d.modified]

\* mutant of InsertCapped: the slice keeps the last entries (changelog[-500:])
InsertCappedTail(changelog, entry) ==
    LET grown == <<entry>> \o changelog
    IN SubSeq(grown, Len(grown) - Min(MaxEntries, Len(grown)) + 1, Len(grown))

\* changelog.insert(0, entry); changelog = changelog[:500]
InsertCapped(changelog, entry) ==
    LET grown == <<entry>> \o changelog
    IN SubSeq(grown, 1, Min(MaxEntries, Len(grown)))

\* the changelog file after update_changelog(diff, timestamp)
update_changelog(file, d, timestamp) ==
    [exists |-> TRUE,
     data |-> InsertCapped(ReadList(file), ChangelogEntry(d, timestamp))]

----------------------------------------------------------------------------
(* Specification of the changelog: update_changelog is called again and    *)
(* again, each call with the next timestamp                                *)

docOne == <<hdrA, rowFullE>>
docTwo == <<hdrA, rowFullB, rowFull2>>

\* the diff handed to the call with the given timestamp
DiffOfCall(timestamp) ==
    IF timestamp % 2 = 1
    THEN compute_diff(parse_xlsx(docOne), parse_xlsx(docTwo))
    ELSE compute_diff(parse_xlsx(docTwo), parse_xlsx(docOne))

InitChangelog ==
    /\ IdleParse
    /\ IdleDiff
    /\ IdleMain

UpdateChangelog ==
    /\ clock < MaxCalls
    /\ clock' = clock + 1
    /\ changelogFile' = update_changelog(changelogFile, DiffOfCall(clock'), clock')
    /\ UNCHANGED <<parseVars, diffVars, metaFile, currentJson, currentXlsx,
                   outbox, stdout>>

NextChangelog == UpdateChangelog

SpecChangelog == InitChangelog /\ [][NextChangelog]_vars

\* C7: the stored changelog has at most 500 entries, newest first: the
\* entry of the latest call at position 0 and every earlier call's entry
\* after every later one; with 500 entries stored a call drops the oldest.
C7_CappedNewestFirst ==
    LET log == changelogFile.data
    IN /\ Len(log) <= 500
       /\ Len(log) = IF clock < 500 THEN clock ELSE 500
       /\ \A i \in 1..Len(log) : log[i].timestamp = clock + 1 - i

\* calls were made with 500 entries already stored
C7_Witness == clock > 501 /\ Len(changelogFile.data) = 500

----------------------------------------------------------------------------
(* main: one action per path through a run *)

docEmpty == <<>>
docInfo == <<hdrInfo, rowFullE>>
docTitle == <<rowFoot, hdrA, rowFullE>>

\* the worksheets the site may serve
MainDocs == <<docEmpty, docOne, docInfo, docTitle, docTwo>>

\* file_hash: the digest of a file, distinct files having distinct digests;
\* digest 0 stands for the "" that meta.get("last_hash", "") defaults to
file_hash(data) == CHOOSE h \in 1..Len(MainDocs) : MainDocs[h] = data

XlsxUrl == "https://www.gov.pl/attachment/list.xlsx"

\* one printed line
Line(text, n) == [text |-> text, n |-> n]

\* old_hash = meta.get("last_hash", "")
OldHash == IF metaFile.exists THEN metaFile.data.last_hash ELSE 0

\* old_entries: [] unless current.json exists
OldEntries == ReadList(currentJson)

\* mutant of InitialDiff: the new records are not listed as added
InitialDiffEmpty(entries_) == [added |-> <<>>, removed |-> <<>>, modified |-> <<>>]

\* initial_diff of the first run
InitialDiff(entries_) == [added |-> entries_, removed |-> <<>>, modified |-> <<>>]

\* meta as written at the end of a run that saw a new file
NewMeta(hash, now, count) ==
    [last_hash |-> hash, last_checked |-> now, last_changed |-> now,
     xlsx_url |-> XlsxUrl, entry_count |-> count]

\* the lines printed up to the hash comparison
Preamble(now, hash) ==
    <<Line("Starting sanctions list check...", now),
      Line("Fetching page to find XLSX link...", 0),
      Line("Found XLSX URL", 0),
      Line("Downloading XLSX...", 0),
      Line("Downloaded", hash)>>

\* fetch_xlsx_url returns None: sys.exit(1)
MainNoLink ==
    /\ clock < MaxRuns
    /\ clock' = clock + 1
    /\ stdout' = <<Line("Starting sanctions list check...", clock'),
                   Line("Fetching page to find XLSX link...", 0),
                   Line("ERROR: Could not find XLSX link on the page!", 0)>>
    /\ UNCHANGED <<parseVars, diffVars, changelogFile, metaFile, currentJson,
                   currentXlsx, outbox>>

\* requests raises while the page or the file is fetched: the run ends
MainFetchFails ==
    /\ clock < MaxRuns
    /\ clock' = clock + 1
    /\ \/ stdout' = <<Line("Starting sanctions list check...", clock'),
                      Line("Fetching page to find XLSX link...", 0)>>
       \/ stdout' = <<Line("Starting sanctions list check...", clock'),
                      Line("Fetching page to find XLSX link...", 0),
                      Line("Found XLSX URL", 0),
                      Line("Downloading XLSX...", 0)>>
    /\ UNCHANGED <<parseVars, diffVars, changelogFile, metaFile, currentJson,
                   currentXlsx, outbox>>

\* new_hash == old_hash: only last_checked is updated
MainUnchanged(doc) ==
    /\ clock < MaxRuns
    /\ file_hash(doc) = OldHash
    /\ clock' = clock + 1
    /\ metaFile' = [exists |-> TRUE,
                    data |-> [metaFile.data EXCEPT !.last_checked = clock']]
    /\ stdout' = Preamble(clock', file_hash(doc))
                   \o <<Line("No changes detected (same file hash). Done.", 0)>>
    /\ UNCHANGED <<parseVars, diffVars, changelogFile, currentJson, currentXlsx,
                   outbox>>

\* steps 9 and 10: current.json and meta.json are written
SaveState(doc, parsed, now) ==
    /\ currentXlsx' = [exists |-> TRUE, data |-> doc]
    /\ currentJson' = [exists |-> TRUE, data |-> parsed]
    /\ metaFile' = [exists |-> TRUE,
                    data |-> NewMeta(file_hash(doc), now, Len(parsed))]

\* the hash changed and there is no previous data: the first run
MainFirstRun(doc) ==
    /\ clock < MaxRuns
    /\ file_hash(doc) # OldHash
    /\ OldEntries = <<>>
    /\ clock' = clock + 1
    /\ LET parsed == parse_xlsx(doc)
       IN /\ changelogFile' =
                 update_changelog(changelogFile, InitialDiff(parsed), clock')
          /\ SaveState(doc, parsed, clock')
          /\ stdout' = Preamble(clock', file_hash(doc))
                 \o <<Line("File hash changed! Analyzing differences...", 0),
                      Line("Parsed entries from new file.", Len(parsed)),
                      Line("First run - no previous data to compare. Initializing.", 0),
                      Line("Done.", clock')>>
    /\ UNCHANGED <<parseVars, diffVars, outbox>>

\* what send_email_notification may do
EmailOutcomes == {"sent", "not configured", "failed"}

\* the hash changed and the diff against the previous data is not empty
MainChanged(doc, email) ==
    /\ clock < MaxRuns
    /\ file_hash(doc) # OldHash
    /\ OldEntries # <<>>
    /\ clock' = clock + 1
    /\ LET parsed == parse_xlsx(doc)
           d == compute_diff(OldEntries, parsed)
           total_changes == Len(d.added) + Len(d.removed) + Len(d.modified)
       IN /\ total_changes > 0
          /\ changelogFile' = update_changelog(changelogFile, d, clock')
          /\ outbox' = IF email = "sent"
                       THEN Append(outbox, [timestamp |-> clock', diff |-> d])
                       ELSE outbox
          /\ SaveState(doc, parsed, clock')
          /\ stdout' = Preamble(clock', file_hash(doc))
                 \o <<Line("File hash changed! Analyzing differences...", 0),
                      Line("Parsed entries from new file.", Len(parsed)),
                      Line("Changes:", total_changes),
                      Line("Changelog updated.", 0),
                      Line(CASE email = "sent" -> "Email notification sent"
                             [] email = "failed" -> "Failed to send email"
                             [] OTHER -> "Email not configured, skipping notification.",
                           0),
                      Line("Done.", clock')>>
    /\ UNCHANGED <<parseVars, diffVars>>

\* the hash changed and the diff against the previous data is empty
MainNoStructuralChange(doc) ==
    /\ clock < MaxRuns
    /\ file_hash(doc) # OldHash
    /\ OldEntries # <<>>
    /\ clock' = clock + 1
    /\ LET parsed == parse_xlsx(doc)
           d == compute_diff(OldEntries, parsed)
           total_changes == Len(d.added) + Len(d.removed) + Len(d.modified)
       IN /\ total_changes = 0
          /\ SaveState(doc, parsed, clock')
          /\ stdout' = Preamble(clock', file_hash(doc))
                 \o <<Line("File hash changed! Analyzing differences...", 0),
                      Line("Parsed entries from new file.", Len(parsed)),
                      Line("Changes:", total_changes),
                      Line("File hash changed but no structural changes detected.", 0),
                      Line("Done.", clock')>>
    /\ UNCHANGED <<parseVars, diffVars, changelogFile, outbox>>

InitMain ==
    /\ IdleParse
    /\ IdleDiff
    /\ IdleMain

NextMain ==
    \/ MainNoLink
    \/ MainFetchFails
    \/ \E i \in 1..Len(MainDocs) : MainUnchanged(MainDocs[i])
    \/ \E i \in 1..Len(MainDocs) : MainFirstRun(MainDocs[i])
    \/ \E i \in 1..Len(MainDocs), email \in EmailOutcomes :
          MainChanged(MainDocs[i], email)
    \/ \E i \in 1..Len(MainDocs) : MainNoStructuralChange(MainDocs[i])

SpecMain == InitMain /\ [][NextMain]_vars

----------------------------------------------------------------------------
(* Properties of main *)

\* the lines of the given text in an output
LinesOf(out, text) == {i \in 1..Len(out) : out[i].text = text}

\* C9: in a run where the hash of the document differs from the stored
\* hash and the stored snapshot is missing or empty, compute_diff is not
\* invoked, exactly one changelog entry is appended, whose "added" is the
\* whole new record list and whose "removed" and "modified" are empty, and
\* the new record list becomes the stored snapshot.
C9_FirstRunSeeds ==
    [][\A h \in 1..Len(MainDocs) :
          (/\ clock' = clock + 1
           /\ LinesOf(stdout', "Downloaded") # {}
           /\ \A i \in LinesOf(stdout', "Downloaded") : stdout'[i].n = h
           /\ h # OldHash
           /\ (~currentJson.exists \/ currentJson.data = <<>>))
          => /\ LinesOf(stdout', "Changes:") = {}
             /\ Len(changelogFile'.data) = Len(ReadList(changelogFile)) + 1
             /\ Tail(changelogFile'.data) = ReadList(changelogFile)
             /\ changelogFile'.data[1].added = parse_xlsx(MainDocs[h])
             /\ changelogFile'.data[1].removed = <<>>
             /\ changelogFile'.data[1].modified = <<>>
             /\ currentJson' = [exists |-> TRUE, data |-> parse_xlsx(MainDocs[h])]
      ]_vars

\* a first run on an empty stored snapshot, after an earlier first run,
\* seeded the changelog with a non-empty record list
C9_Witness ==
    /\ LinesOf(stdout, "First run - no previous data to compare. Initializing.") # {}
    /\ Len(changelogFile.data) = 2
    /\ changelogFile.data[1].added # <<>>
    /\ changelogFile.data[1].added = currentJson.data

\* no modified entry of a diff has an empty "changes"
NoEmptyChanges(d) ==
    \A i \in 1..Len(d.modified) : DOMAIN d.modified[i].changes # {}

\* C10: every "modified" entry has at least one changed field, so main
\* never logs or notifies a modification without a changed field.
C10_NoEmptyModification ==
    /\ \A i \in 1..Len(changelogFile.data) : NoEmptyChanges(changelogFile.data[i])
    /\ \A i \in 1..Len(outbox) : NoEmptyChanges(outbox[i].diff)

====
